---- MODULE Spec2Model ----
(***************************************************************************)
(* Model of ohc-uploader.py, the one-shot uploader for the OnlineHashCrack *)
(* v2 API.  A run of the script is a sequence of steps of main(); the only *)
(* state that survives a run is the overflow file in the working           *)
(* directory.                                                              *)
(*                                                                         *)
(* Strings that the script inspects (the API key, file names, the lines of *)
(* the input files) are sequences of code points.  A hash line is          *)
(* abstracted to one code point above the ASCII range.                     *)
(*                                                                         *)
(* Environment assumptions: opening, reading and writing local files       *)
(* succeeds; the remote end is unconstrained (any status, any body, or a   *)
(* transport failure).                                                     *)
(***************************************************************************)
EXTENDS Integers, Sequences, FiniteSets, TLC

VARIABLES
    pc,               \* position of the run in main()
    list_flag,        \* args.list
    API_KEY,          \* module constant API_KEY as edited by the user
    AGREE_TERMS,      \* module constant AGREE_TERMS as edited by the user
    cwd_files,        \* name -> lines, the directory as seen by this run's scan
    opened,           \* names passed to open(fp, "r") in this run, in order
    hashes,           \* main: hashes
    tasks_resp,       \* main: tasks_resp / list_tasks_mode: data
    existing_hashes,  \* main: existing_hashes
    new_hashes,       \* main: new_hashes
    resp_data,        \* main: resp_data
    calls,            \* payloads handed to requests.post in this run, in order
    in_flight,        \* TRUE while requests.post has not returned
    outcomes,         \* what each returned requests.post call did, in order
    steps,            \* the steps of main() this run has completed, in order
    uncaught,         \* exception that left main() uncaught, or "none"
    exit_code,        \* process exit status, -1 while running
    overflow_file,    \* content of OVERFLOW_FILE (lines), or Absent
    overflow_before,  \* overflow_file when the current run started
    overflow_writes   \* number of open(OVERFLOW_FILE, "w") in this run

vars == << pc, list_flag, API_KEY, AGREE_TERMS, cwd_files, opened, hashes,
           tasks_resp, existing_hashes, new_hashes, resp_data, calls,
           in_flight, outcomes, steps, uncaught, exit_code, overflow_file,
           overflow_before, overflow_writes >>

-----------------------------------------------------------------------------
(* Program constants *)

MAX_HASHES_PER_REQUEST == 50

ALGO_MODE == 22000

\* resp.text[:4000]
TEXT_LIMIT == 4000

\* timeout=30 for list_tasks, timeout=60 for the upload
LIST_TIMEOUT == 30

SUBMIT_TIMEOUT == 60

\* http >= 400
HTTP_ERROR_FLOOR == 400

\* "#"
POUND == 35

\* "."
DOT == 46

\* "\n"
NEWLINE == 10

\* "sk_XXX"
PLACEHOLDER_PREFIX == << 115, 107, 95, 88, 88, 88 >>

\* ".hc22000", the literal tail of the pattern "*.hc22000"
PATTERN_SUFFIX == << 46, 104, 99, 50, 50, 48, 48, 48 >>

-----------------------------------------------------------------------------
(* Bounds of the model *)

\* one local file holds up to MAX_HASHES_PER_REQUEST + Extra distinct hashes
Extra == 1

\* at most MaxFiles files match the pattern
MaxFiles == 2

\* the remote account lists up to MaxTasks of the local hashes
MaxTasks == 2

-----------------------------------------------------------------------------
(* Python built-ins used by the script *)

\* OVERFLOW_FILE does not exist
Absent == [exists |-> FALSE, lines |-> << >>]

\* a variable of main() that has not been assigned
Unset == [raised |-> "unset"]

Min(a, b) == IF a <= b THEN a ELSE b

\* str.isspace() on the ASCII range
IsSpace(c) == c \in {9, 10, 11, 12, 13, 28, 29, 30, 31, 32}

RECURSIVE LStrip(_)
LStrip(s) == IF s # << >> /\ IsSpace(Head(s)) THEN LStrip(Tail(s)) ELSE s

RECURSIVE RStrip(_)
RStrip(s) ==
    IF s # << >> /\ IsSpace(s[Len(s)]) THEN RStrip(SubSeq(s, 1, Len(s) - 1)) ELSE s

\* str.strip()
Strip(s) == RStrip(LStrip(s))

\* str.startswith(p)
StartsWith(s, p) == Len(s) >= Len(p) /\ SubSeq(s, 1, Len(p)) = p

\* str.endswith(p)
EndsWith(s, p) == Len(s) >= Len(p) /\ SubSeq(s, Len(s) - Len(p) + 1, Len(s)) = p

\* s < t for Python strings: code point by code point, a proper prefix first
RECURSIVE StrLess(_, _)
StrLess(s, t) ==
    IF t = << >> THEN FALSE
    ELSE IF s = << >> THEN TRUE
    ELSE IF Head(s) # Head(t) THEN Head(s) < Head(t)
    ELSE StrLess(Tail(s), Tail(t))

\* sorted(S) for a collection of distinct strings
RECURSIVE Sorted(_)
Sorted(S) ==
    IF S = {} THEN << >>
    ELSE LET m == CHOOSE x \in S : \A y \in S \ {x} : StrLess(x, y)
         IN  << m >> \o Sorted(S \ {m})

\* glob.glob("*.hc22000"): names ending in the suffix; "*" matches no leading dot
Glob(dir) ==
    { n \in DOMAIN dir : EndsWith(n, PATTERN_SUFFIX) /\ Head(n) # DOT }

\* dict.get(key, default)
Get(d, key, default) == IF key \in DOMAIN d THEN d[key] ELSE default

-----------------------------------------------------------------------------
(* read_hashes_from_files *)

\* "for line in f": every line of the file, with its line terminator
FileLines(content) == [i \in 1..Len(content) |-> content[i] \o << NEWLINE >>]

\* lines 53-57 for one file: h = line.strip() of every line, the empty ones
\* and the comments skipped
KeptLines(lines) ==
    SelectSeq([i \in 1..Len(lines) |-> Strip(lines[i])],
              LAMBDA h : ~ (h = << >> \/ StartsWith(h, << POUND >>)))

\* lines 50-57: all_hashes after the loop over the files
RECURSIVE AllHashes(_, _)
AllHashes(dir, files) ==
    IF files = << >> THEN << >>
    ELSE KeptLines(FileLines(dir[Head(files)])) \o AllHashes(dir, Tail(files))

\* line 60-64: seen when the loop reaches all[i]
Seen(all, i) == {all[j] : j \in 1..(i - 1)}

\* lines 60-65: de-dupe while preserving order
Dedupe(all) ==
    LET kept == SelectSeq([i \in 1..Len(all) |-> i],
                          LAMBDA i : all[i] \notin Seen(all, i))
    IN  [k \in 1..Len(kept) |-> all[kept[k]]]

\* the matched names ordered by length first (10 after 2)
MatchedFiles_ByLength(dir) ==
    LET S == Glob(dir)
        Before(a, b) == Len(a) < Len(b) \/ (Len(a) = Len(b) /\ StrLess(a, b))
        Rank(n) == Cardinality({m \in S : Before(m, n)})
    IN  [r \in 1..Cardinality(S) |-> CHOOSE n \in S : Rank(n) = r - 1]

\* line 46
MatchedFiles(dir) == Sorted(Glob(dir))

read_hashes_from_files(dir) ==
    LET files == MatchedFiles(dir)
    IN  IF files = << >> THEN << >> ELSE Dedupe(AllHashes(dir, files))

-----------------------------------------------------------------------------
(* ohc_post, fetch_tasks, build_existing_hash_set *)

\* What requests.post does: raises requests.RequestException, or returns a
\* response with a status code and a body.  A body is JSON text of an object
\* (json = "object"), JSON text of anything else (json = "other": an array,
\* null, a string, a number) or no JSON at all (json = "invalid").
TransportError == [kind |-> "transport_error"]

\* a transport failure turned into the fallback dict instead of propagating
ohc_post_Swallow(outcome) ==
    IF outcome.kind = "transport_error"
    THEN [raised |-> "none",
          data   |-> ("_http_status" :> 0) @@ ("success" :> FALSE) @@ ("text" :> 0)]
    ELSE IF outcome.body.json = "other"
    THEN [raised |-> "TypeError"]
    ELSE LET data == IF outcome.body.json = "object"
                     THEN outcome.body.obj
                     ELSE ("success" :> FALSE) @@
                          ("text" :> Min(outcome.body.text_len, TEXT_LIMIT))
         IN  [raised |-> "none",
              data   |-> ("_http_status" :> outcome.status) @@ data]

\* lines 82-87
ohc_post(outcome) ==
    IF outcome.kind = "transport_error"
    THEN [raised |-> "RequestException"]
    ELSE IF outcome.body.json = "other"
    THEN [raised |-> "TypeError"]
    ELSE LET data == IF outcome.body.json = "object"
                     THEN outcome.body.obj
                     ELSE ("success" :> FALSE) @@
                          ("text" :> Min(outcome.body.text_len, TEXT_LIMIT))
         IN  [raised |-> "none",
              data   |-> ("_http_status" :> outcome.status) @@ data]

\* lines 95-99
ListCall ==
    [payload |-> [api_key |-> API_KEY, agree_terms |-> AGREE_TERMS,
                  action |-> "list_tasks"],
     timeout |-> LIST_TIMEOUT]

\* lines 205-210
SubmitCall(hs) ==
    [payload |-> [api_key |-> API_KEY, agree_terms |-> AGREE_TERMS,
                  algo_mode |-> ALGO_MODE, hashes |-> hs],
     timeout |-> SUBMIT_TIMEOUT]

\* the success flag of the body not looked at
IsFailure_StatusOnly(data) == Get(data, "_http_status", 0) >= HTTP_ERROR_FLOOR

\* lines 129, 171, 223: http >= 400 or not data.get("success", False)
IsFailure(data) ==
    \/ Get(data, "_http_status", 0) >= HTTP_ERROR_FLOOR
    \/ ~ Get(data, "success", FALSE)

\* lines 109-112: the loop over the task entries; t.get raises AttributeError
\* on an entry that is not an object
RECURSIVE ExistingLoop(_, _)
ExistingLoop(tasks, existing) ==
    IF tasks = << >> THEN [raised |-> "none", set |-> existing]
    ELSE LET t == Head(tasks)
         IN  IF t.kind # "object" THEN [raised |-> "AttributeError"]
             ELSE LET h == Get(t.fields, "hash", << >>)
                  IN  ExistingLoop(Tail(tasks),
                                   IF h # << >> THEN existing \cup {h} ELSE existing)

\* lines 107-113
build_existing_hash_set(resp) == ExistingLoop(Get(resp, "tasks", << >>), {})

\* the difference taken on sets, the order of the local hashes lost
NewHashes_SetDifference(hs, existing) ==
    Sorted({hs[i] : i \in DOMAIN hs} \ existing)

\* line 179
NewHashes(hs, existing) == SelectSeq(hs, LAMBDA h : h \notin existing)

\* the early return on an empty collection left out
NoHashes_Never(hs) == FALSE

\* line 156: not hashes
NoHashes(hs) == hs = << >>

\* line 185: not new_hashes
NothingNew(nh) == nh = << >>

\* the limit compared with >= instead of >
OverLimit_AtCap(nh) == Len(nh) >= MAX_HASHES_PER_REQUEST

\* line 190
OverLimit(nh) == Len(nh) > MAX_HASHES_PER_REQUEST

\* line 191: new_hashes[MAX_HASHES_PER_REQUEST:]
Overflow(nh) == SubSeq(nh, MAX_HASHES_PER_REQUEST + 1, Len(nh))

\* the key compared without strip()
ConfigError_NoStrip(key, terms) ==
    \/ key = << >>
    \/ StartsWith(key, PLACEHOLDER_PREFIX)
    \/ terms # "yes"

\* the terms flag not checked
ConfigError_NoTerms(key, terms) ==
    \/ key = << >>
    \/ StartsWith(Strip(key), PLACEHOLDER_PREFIX)

\* lines 143-149
ConfigError(key, terms) ==
    \/ key = << >>
    \/ StartsWith(Strip(key), PLACEHOLDER_PREFIX)
    \/ terms # "yes"

-----------------------------------------------------------------------------
(* Inputs of a run *)

\* the k-th hash line: one code point that is neither white space nor "#"
HashSym(k) == 1000 + k

Hash(k) == << HashSym(k) >>

\* "", "sk_XXXXXX", " sk_XXXab\t", " " and "sk_live"
Keys ==
    { << >>,
      << 115, 107, 95, 88, 88, 88, 88, 88, 88 >>,
      << 32, 115, 107, 95, 88, 88, 88, 97, 98, 9 >>,
      << 32 >>,
      << 115, 107, 95, 108, 105, 118, 101 >> }

TermsValues == {"yes", "no"}

\* "1.hc22000", "10.hc22000", "2.hc22000": sorted() puts them in this order
MatchingNames ==
    { << 49 >> \o PATTERN_SUFFIX, << 49, 48 >> \o PATTERN_SUFFIX,
      << 50 >> \o PATTERN_SUFFIX }

\* "notes.txt" and ".hc22000": files of the directory the pattern does not match
OtherFiles ==
    (<< 110, 111, 116, 101, 115, 46, 116, 120, 116 >> :> << Hash(7) >>) @@
    (PATTERN_SUFFIX :> << Hash(8) >>)

\* blank and comment lines only
JunkLines == << << >>, << 32 >>, << POUND, HashSym(1) >>, << 9, POUND >> >>

\* padded, commented, repeated lines and a line with inner white space
SmallLines ==
    << << 32, HashSym(1), 9 >>, Hash(2), << POUND, HashSym(3) >>, Hash(1), << >>,
       << HashSym(2), 32, HashSym(3) >>, << 12 >> >>

OtherLines == << Hash(2), << 32, 32, HashSym(1) >> >>

Block(n) == [i \in 1..n |-> Hash(i)]

Contents ==
    {JunkLines, SmallLines, OtherLines}
        \cup {Block(MAX_HASHES_PER_REQUEST), Block(MAX_HASHES_PER_REQUEST + Extra)}

Directories ==
    UNION { { f @@ OtherFiles : f \in [S -> Contents] } :
            S \in { T \in SUBSET MatchingNames : Cardinality(T) <= MaxFiles } }

Task(k) == [kind |-> "object", fields |-> ("hash" :> Hash(k)) @@ ("id" :> k)]

\* entries without a usable hash field, and an entry that is no object
JunkTasks ==
    { [kind |-> "object", fields |-> ("id" :> 0)],
      [kind |-> "object", fields |-> ("hash" :> << >>)],
      [kind |-> "string", fields |-> << >>] }

TaskPrefix(j) == [i \in 1..j |-> Task(i)]

TaskLists ==
    {TaskPrefix(j) : j \in 0..MaxTasks}
        \cup {<< Task(MAX_HASHES_PER_REQUEST + 1) >>}
        \cup {<< Task(1), t >> \o SubSeq(TaskPrefix(MaxTasks), 2, MaxTasks) :
                 t \in JunkTasks}

\* a 2xx status, a status that is neither 2xx nor >= 400, the first status
\* >= 400, and a 5xx status
Statuses == {200, 300, 400, 500}

PlainBodies ==
    {[json |-> "other"], [json |-> "invalid", text_len |-> TEXT_LIMIT + 1]}
        \cup {[json |-> "object", obj |-> o] :
                 o \in {<< >>, ("success" :> TRUE), ("success" :> FALSE)}}

TaskBodies ==
    {[json |-> "object", obj |-> ("success" :> TRUE) @@ ("tasks" :> l)] :
       l \in TaskLists}

Response(s, b) == [kind |-> "response", status |-> s, body |-> b]

\* what the list_tasks call can do
ListOutcomes ==
    {TransportError}
        \cup {Response(s, b) : s \in Statuses, b \in PlainBodies}
        \cup {Response(200, b) : b \in TaskBodies}
        \cup {Response(500, [json |-> "object",
                             obj |-> ("success" :> FALSE) @@ ("tasks" :> TaskPrefix(1))]),
              Response(400, [json |-> "object",
                             obj |-> ("success" :> TRUE) @@ ("tasks" :> TaskPrefix(1))])}

\* what the upload call can do
SubmitOutcomes ==
    {TransportError} \cup {Response(s, b) : s \in Statuses \ {500}, b \in PlainBodies}

-----------------------------------------------------------------------------
(* The run *)

Init ==
    /\ pc = "idle"
    /\ list_flag = FALSE
    /\ API_KEY = << >>
    /\ AGREE_TERMS = "yes"
    /\ cwd_files = << >>
    /\ opened = << >>
    /\ hashes = << >>
    /\ tasks_resp = Unset
    /\ existing_hashes = {}
    /\ new_hashes = << >>
    /\ resp_data = Unset
    /\ calls = << >>
    /\ in_flight = FALSE
    /\ outcomes = << >>
    /\ steps = << >>
    /\ uncaught = "none"
    /\ exit_code = -1
    /\ overflow_file = Absent
    /\ overflow_before = Absent
    /\ overflow_writes = 0

\* "return code" from main(), or an exception leaving main(): the interpreter
\* exits with status 1 on an uncaught exception
Return(code) == pc' = "done" /\ exit_code' = code /\ uncaught' = "none"

Raise(exc) == pc' = "done" /\ exit_code' = 1 /\ uncaught' = exc

Running(at) == pc' = at /\ UNCHANGED << exit_code, uncaught >>

Did(step) == steps' = Append(steps, step)

\* the script is started: python ohc-uploader.py [-list]
StartRun ==
    /\ pc = "idle"
    /\ \E flag \in BOOLEAN, key \in Keys, terms \in TermsValues :
           /\ list_flag' = flag
           /\ API_KEY' = key
           /\ AGREE_TERMS' = terms
    /\ pc' = "validate"
    /\ overflow_before' = overflow_file
    /\ UNCHANGED << cwd_files, opened, hashes, tasks_resp, existing_hashes,
                    new_hashes, resp_data, calls, in_flight, outcomes, steps,
                    uncaught, exit_code, overflow_file, overflow_writes >>

\* lines 143-152
ValidateConfig ==
    /\ pc = "validate"
    /\ Did("validate")
    /\ IF ConfigError(API_KEY, AGREE_TERMS)
       THEN Return(2)
       ELSE Running(IF list_flag THEN "list_tasks_mode" ELSE "read")
    /\ UNCHANGED << list_flag, API_KEY, AGREE_TERMS, cwd_files, opened, hashes,
                    tasks_resp, existing_hashes, new_hashes, resp_data, calls,
                    in_flight, outcomes, overflow_file, overflow_before,
                    overflow_writes >>

\* lines 155-160
ReadHashes ==
    /\ pc = "read"
    /\ Did("read")
    /\ \E dir \in Directories :
           /\ cwd_files' = dir
           /\ opened' = MatchedFiles(dir)
           /\ hashes' = read_hashes_from_files(dir)
    /\ IF NoHashes(hashes') THEN Return(0) ELSE Running("fetch")
    /\ UNCHANGED << list_flag, API_KEY, AGREE_TERMS, tasks_resp,
                    existing_hashes, new_hashes, resp_data, calls, in_flight,
                    outcomes, overflow_file, overflow_before, overflow_writes >>

\* requests.post is entered (line 76) from fetch_tasks, lines 119 and 165
SendList ==
    /\ pc \in {"list_tasks_mode", "fetch"}
    /\ ~ in_flight
    /\ Did("post")
    /\ calls' = Append(calls, ListCall)
    /\ in_flight' = TRUE
    /\ UNCHANGED << pc, list_flag, API_KEY, AGREE_TERMS, cwd_files, opened,
                    hashes, tasks_resp, existing_hashes, new_hashes, resp_data,
                    outcomes, uncaught, exit_code, overflow_file,
                    overflow_before, overflow_writes >>

\* list_tasks_mode, lines 118-131, from the return of requests.post
ListTasksModeReturn ==
    /\ pc = "list_tasks_mode"
    /\ in_flight
    /\ in_flight' = FALSE
    /\ Did("list_tasks_mode")
    /\ \E outcome \in ListOutcomes :
           /\ outcomes' = Append(outcomes, outcome)
           /\ LET r == ohc_post(outcome)
              IN  IF r.raised = "RequestException"
                  THEN Return(4) /\ UNCHANGED tasks_resp
                  ELSE IF r.raised # "none"
                  THEN Raise(r.raised) /\ UNCHANGED tasks_resp
                  ELSE /\ tasks_resp' = r
                       /\ Return(IF IsFailure(r.data) THEN 3 ELSE 0)
    /\ UNCHANGED << list_flag, API_KEY, AGREE_TERMS, cwd_files, opened, hashes,
                    existing_hashes, new_hashes, resp_data, calls,
                    overflow_file, overflow_before, overflow_writes >>

\* main, lines 164-175, from the return of requests.post
FetchReturn ==
    /\ pc = "fetch"
    /\ in_flight
    /\ in_flight' = FALSE
    /\ Did("fetch")
    /\ \E outcome \in ListOutcomes :
           /\ outcomes' = Append(outcomes, outcome)
           /\ LET r == ohc_post(outcome)
              IN  IF r.raised = "RequestException"
                  THEN Return(4) /\ UNCHANGED tasks_resp
                  ELSE IF r.raised # "none"
                  THEN Raise(r.raised) /\ UNCHANGED tasks_resp
                  ELSE /\ tasks_resp' = r
                       /\ IF IsFailure(r.data) THEN Return(3) ELSE Running("reconcile")
    /\ UNCHANGED << list_flag, API_KEY, AGREE_TERMS, cwd_files, opened, hashes,
                    existing_hashes, new_hashes, resp_data, calls,
                    overflow_file, overflow_before, overflow_writes >>

\* lines 177-187
Reconcile ==
    /\ pc = "reconcile"
    /\ LET e == build_existing_hash_set(tasks_resp.data)
       IN  IF e.raised # "none"
           THEN /\ Raise(e.raised)
                /\ UNCHANGED << existing_hashes, new_hashes, steps >>
           ELSE /\ existing_hashes' = e.set
                /\ new_hashes' = NewHashes(hashes, e.set)
                /\ Did("reconcile")
                /\ IF NothingNew(new_hashes') THEN Return(0) ELSE Running("gate")
    /\ UNCHANGED << list_flag, API_KEY, AGREE_TERMS, cwd_files, opened, hashes,
                    tasks_resp, resp_data, calls, in_flight, outcomes,
                    overflow_file, overflow_before, overflow_writes >>

\* lines 190-215: the overflow branch, or requests.post is entered for the upload
SubmissionGate ==
    /\ pc = "gate"
    /\ Did("gate")
    /\ IF OverLimit(new_hashes)
       THEN /\ overflow_file' = [exists |-> TRUE, lines |-> Overflow(new_hashes)]
            /\ overflow_writes' = overflow_writes + 1
            /\ Return(1)
            /\ UNCHANGED << calls, in_flight >>
       ELSE /\ calls' = Append(calls, SubmitCall(new_hashes))
            /\ in_flight' = TRUE
            /\ Running("submit")
            /\ UNCHANGED << overflow_file, overflow_writes >>
    /\ UNCHANGED << list_flag, API_KEY, AGREE_TERMS, cwd_files, opened, hashes,
                    tasks_resp, existing_hashes, new_hashes, resp_data,
                    outcomes, overflow_before >>

\* lines 214-226, from the return of requests.post
SubmitReturn ==
    /\ pc = "submit"
    /\ in_flight
    /\ in_flight' = FALSE
    /\ Did("submit")
    /\ \E outcome \in SubmitOutcomes :
           /\ outcomes' = Append(outcomes, outcome)
           /\ LET r == ohc_post(outcome)
              IN  IF r.raised = "RequestException"
                  THEN Return(4) /\ UNCHANGED resp_data
                  ELSE IF r.raised # "none"
                  THEN Raise(r.raised) /\ UNCHANGED resp_data
                  ELSE /\ resp_data' = r
                       /\ Return(IF IsFailure(r.data) THEN 3 ELSE 0)
    /\ UNCHANGED << list_flag, API_KEY, AGREE_TERMS, cwd_files, opened, hashes,
                    tasks_resp, existing_hashes, new_hashes, calls,
                    overflow_file, overflow_before, overflow_writes >>

\* line 230: the process ends; nothing but the overflow file outlives it
Exit ==
    /\ pc = "done"
    /\ pc' = "idle"
    /\ list_flag' = FALSE
    /\ API_KEY' = << >>
    /\ AGREE_TERMS' = "yes"
    /\ cwd_files' = << >>
    /\ opened' = << >>
    /\ hashes' = << >>
    /\ tasks_resp' = Unset
    /\ existing_hashes' = {}
    /\ new_hashes' = << >>
    /\ resp_data' = Unset
    /\ calls' = << >>
    /\ in_flight' = FALSE
    /\ outcomes' = << >>
    /\ steps' = << >>
    /\ uncaught' = "none"
    /\ exit_code' = -1
    /\ overflow_writes' = 0
    /\ overflow_before' = overflow_file
    /\ UNCHANGED overflow_file

Next ==
    \/ StartRun
    \/ ValidateConfig
    \/ ReadHashes
    \/ SendList
    \/ ListTasksModeReturn
    \/ FetchReturn
    \/ Reconcile
    \/ SubmissionGate
    \/ SubmitReturn
    \/ Exit

Spec == Init /\ [][Next]_vars

-----------------------------------------------------------------------------
(* Vocabulary of the properties *)

Range(q) == {q[i] : i \in DOMAIN q}

Has(step) == \E i \in DOMAIN steps : steps[i] = step

LastStep == IF steps = << >> THEN "none" ELSE steps[Len(steps)]

IsListCall(c) == "action" \in DOMAIN c.payload /\ c.payload.action = "list_tasks"

IsSubmitCall(c) == "hashes" \in DOMAIN c.payload

ListCalls == {i \in DOMAIN calls : IsListCall(calls[i])}

SubmitCalls == {i \in DOMAIN calls : IsSubmitCall(calls[i])}

OverflowUntouched == overflow_writes = 0 /\ overflow_file = overflow_before

\* the key, leading white space aside, begins with sk_XXX
IsPlaceholder(key) ==
    \E i \in DOMAIN key :
        /\ \A j \in 1..(i - 1) : IsSpace(key[j])
        /\ Len(key) >= i + 5
        /\ << key[i], key[i + 1], key[i + 2], key[i + 3], key[i + 4], key[i + 5] >>
               = << 115, 107, 95, 88, 88, 88 >>

InvalidConfig == API_KEY = << >> \/ IsPlaceholder(API_KEY) \/ AGREE_TERMS # "yes"

\* the response is a JSON object whose success field is true, below status 400
ReportsSuccess(o) ==
    /\ o.kind = "response"
    /\ o.status < 400
    /\ o.body.json = "object"
    /\ "success" \in DOMAIN o.body.obj
    /\ o.body.obj["success"] = TRUE

\* the response has a status outside 200..299, or its body says success: false
NonSuccessResponse(o) ==
    /\ o.kind = "response"
    /\ \/ o.status \notin 200..299
       \/ /\ o.body.json = "object"
          /\ "success" \in DOMAIN o.body.obj
          /\ o.body.obj["success"] = FALSE

\* s without its leading and trailing white space
Trim(s) ==
    LET ink == {i \in DOMAIN s : ~ IsSpace(s[i])}
    IN  IF ink = {} THEN << >>
        ELSE LET lo == CHOOSE i \in ink : \A j \in ink : i <= j
                 hi == CHOOSE i \in ink : \A j \in ink : i >= j
             IN  [k \in 1..(hi - lo + 1) |-> s[lo + k - 1]]

\* the elements of nh after the first 50
BeyondFifty(nh) == [i \in 1..(Len(nh) - 50) |-> nh[50 + i]]

-----------------------------------------------------------------------------
(* Properties *)

C2_SubmissionGate ==
    (~ list_flag /\ Has("gate")) =>
        LET n == Len(new_hashes)
        IN  /\ n >= 1
            /\ IF n <= 50
               THEN /\ Cardinality(SubmitCalls) = 1
                    /\ \A i \in SubmitCalls : calls[i].payload.hashes = new_hashes
                    /\ OverflowUntouched
               ELSE /\ SubmitCalls = {}
                    /\ overflow_writes = 1
                    /\ overflow_file.exists
                    /\ overflow_file.lines = BeyondFifty(new_hashes)
                    /\ Len(overflow_file.lines) = n - 50
                    /\ pc = "done"
                    /\ exit_code = 1

\* 51 new hashes: nothing submitted, one line in the overflow file
C2_Witness ==
    /\ Has("gate")
    /\ Len(new_hashes) = 51
    /\ pc = "done"
    /\ exit_code = 1
    /\ overflow_file.lines = << new_hashes[51] >>

\* exactly 50 new hashes in a directory that holds an earlier overflow file
C2_WitnessAtCap ==
    /\ Has("gate")
    /\ Len(new_hashes) = 50
    /\ SubmitCalls = {2}
    /\ overflow_before.exists
    /\ overflow_file = overflow_before

\* C3: a call that returns a response with a status outside 2xx, or with a
\* body that says success: false, ends the run with exit code 3, and no
\* further call is made.
C3_NonSuccessExitsThree ==
    \A i \in DOMAIN outcomes :
        NonSuccessResponse(outcomes[i]) =>
            (pc = "done" /\ exit_code = 3 /\ Len(calls) = i)

\* C4: a call that fails at transport level ends the run with exit code 4; it
\* is the last call of the run and the overflow file is not written.
C4_TransportFailureExitsFour ==
    \A i \in DOMAIN outcomes :
        outcomes[i].kind = "transport_error" =>
            /\ pc = "done"
            /\ exit_code = 4
            /\ Len(calls) = i
            /\ OverflowUntouched

\* the upload call times out
C4_Witness ==
    /\ Len(outcomes) = 2
    /\ IsSubmitCall(calls[2])
    /\ outcomes[2].kind = "transport_error"
    /\ exit_code = 4

C6_ConfigValidatedFirst ==
    (~ list_flag /\ pc # "idle") =>
        /\ pc = "validate" => (steps = << >> /\ opened = << >> /\ calls = << >>
                               /\ OverflowUntouched)
        /\ (InvalidConfig /\ pc # "validate") =>
               /\ pc = "done"
               /\ exit_code = 2
               /\ ~ Has("read")
               /\ opened = << >>
               /\ calls = << >>
               /\ OverflowUntouched
        /\ ~ InvalidConfig => exit_code # 2

\* the placeholder key with white space around it
C6_Witness ==
    /\ ~ list_flag
    /\ pc = "done"
    /\ exit_code = 2
    /\ API_KEY # << >>
    /\ IsSpace(Head(API_KEY))
    /\ AGREE_TERMS = "yes"

\* C7: without the list flag and with a valid configuration, a collection
\* that comes back empty ends the run with exit code 0, no call made and the
\* overflow file not written.
C7_NoLocalHashesNoCalls ==
    (~ list_flag /\ Has("read") /\ hashes = << >>) =>
        /\ pc = "done"
        /\ exit_code = 0
        /\ calls = << >>
        /\ OverflowUntouched

\* matching files are present, every line of them blank or a comment
C7_Witness ==
    /\ ~ list_flag
    /\ Has("read")
    /\ hashes = << >>
    /\ opened # << >>
    /\ pc = "done"
    /\ exit_code = 0

\* C8: after reconciliation, with L the local hashes, E the hash fields of the
\* task entries of the list-tasks response and N new_hashes: N is a
\* subsequence of L, no element of N is in E, and every element of L is in N
\* or in E.
C8_OrderPreservingDifference ==
    (LastStep = "reconcile") =>
        LET L  == hashes
            N  == new_hashes
            o  == outcomes[1].body.obj
            ts == IF "tasks" \in DOMAIN o THEN o["tasks"] ELSE << >>
            E  == {ts[i].fields["hash"] :
                     i \in {j \in DOMAIN ts : "hash" \in DOMAIN ts[j].fields}}
            inN == Range(N)
        IN  /\ N = SelectSeq(L, LAMBDA h : h \in inN)
            /\ Cardinality(Range(L)) = Len(L)
            /\ inN \cap E = {}
            /\ Range(L) \subseteq inN \cup E

\* 51 local hashes, two of them on the account, 49 new ones
C8_Witness ==
    /\ LastStep = "reconcile"
    /\ Len(hashes) = 51
    /\ Cardinality(existing_hashes) = 2
    /\ Len(new_hashes) = 49

\* C9: after the scan, hashes has no duplicate, holds exactly the trimmed
\* lines of the matching files that are neither empty nor comments, orders
\* them by first occurrence with the files taken in sorted name order, and
\* is empty when no file matches.
C9_CollectorOutput ==
    (LastStep = "read") =>
        LET files == Glob(cwd_files)
            Rank(n) == Cardinality({m \in files : StrLess(m, n)})
            occ == UNION { { [at |-> Rank(n) * 1000 + i, h |-> Trim(cwd_files[n][i])] :
                               i \in DOMAIN cwd_files[n] } : n \in files }
            kept == {x \in occ : x.h # << >> /\ x.h[1] # 35}
            First(h) == LET at == {x.at : x \in {y \in kept : y.h = h}}
                        IN  CHOOSE a \in at : \A b \in at : a <= b
        IN  /\ Cardinality(Range(hashes)) = Len(hashes)
            /\ Range(hashes) = {x.h : x \in kept}
            /\ \A i \in 1..(Len(hashes) - 1) :
                   First(hashes[i]) < First(hashes[i + 1])
            /\ files = {} => hashes = << >>

\* two files whose sorted name order is not their numeric order, with lines
\* in common
C9_Witness ==
    /\ LastStep = "read"
    /\ Len(opened) = 2
    /\ Len(opened[1]) > Len(opened[2])
    /\ Len(hashes) = 3
    /\ \E n \in Range(opened) : Len(cwd_files[n]) > 3

\* C10: the overflow file is written in a run exactly if the run exits with
\* code 1; when written it holds the new hashes after the 50th, at least one,
\* in place of what it held; a run that exits with 0, 2, 3 or 4 leaves it as
\* it was.
C10_OverflowIffExitOne ==
    (pc = "done") =>
        /\ (overflow_writes > 0) <=> (exit_code = 1)
        /\ overflow_writes > 0 =>
               /\ overflow_file.exists
               /\ overflow_file.lines = BeyondFifty(new_hashes)
               /\ overflow_file.lines # << >>
        /\ exit_code \in {0, 2, 3, 4} => overflow_file = overflow_before

====
